---- MODULE Spec2Model ----
(***************************************************************************)
(* Model of the risk scoring engine of src/main.py: the asset and event    *)
(* stores, the rule policy, RiskEngine.evaluate/aggregate/percentile and   *)
(* the two summary listings (export_report and the 'top' command).         *)
(*                                                                         *)
(* Numbers: Python floats are modelled by exact rationals [n, d] in lowest *)
(* terms (d > 0).  A Python dict read with .get is a record with a field   *)
(* "keys" holding the set of keys that are present.  The numbers of a      *)
(* policy's calc and when sections are numbers; the severity, criticality, *)
(* ts and weight fields are JSON values that float() and int() convert.    *)
(* The opaque 'data' field of an event, the report's generated_at and      *)
(* authors fields and the text layout of fmt_table are left out.           *)
(***************************************************************************)
EXTENDS Integers, Sequences, FiniteSets, TLC

(***************************************************************************)
(* Bounds of the model.                                                    *)
(***************************************************************************)
MaxEvents == 3
MaxEvals == 2
MaxAssetLoads == 1
MaxPctLen == 4

(***************************************************************************)
(* Exact rational arithmetic standing for float arithmetic.                *)
(***************************************************************************)
Abs(x) == IF x < 0 THEN -x ELSE x

RECURSIVE GCD(_, _)
GCD(a, b) == IF b = 0 THEN a ELSE GCD(b, a % b)

R(n, d) ==
  LET g == GCD(Abs(n), d)
  IN  IF n = 0 THEN [n |-> 0, d |-> 1] ELSE [n |-> n \div g, d |-> d \div g]

RInt(i) == [n |-> i, d |-> 1]
RZero == RInt(0)
RAdd(x, y) == R(x.n * y.d + y.n * x.d, x.d * y.d)
RSub(x, y) == R(x.n * y.d - y.n * x.d, x.d * y.d)
RMul(x, y) == R(x.n * y.n, x.d * y.d)
RDivInt(x, k) == R(x.n, x.d * k)
RLess(x, y) == x.n * y.d < y.n * x.d
RLeq(x, y) == x.n * y.d <= y.n * x.d
RFloor(x) == x.n \div x.d
RCeil(x) == IF x.n % x.d = 0 THEN x.n \div x.d ELSE (x.n \div x.d) + 1

(* the builtin max(a, b): b if b > a, else a *)
PyMax2(a, b) == IF RLess(a, b) THEN b ELSE a

Range(s) == {s[i] : i \in 1..Len(s)}

RECURSIVE SumSeq(_)
SumSeq(s) == IF s = <<>> THEN RZero ELSE RAdd(s[1], SumSeq(Tail(s)))

RECURSIVE MaxSeq(_)
MaxSeq(s) == IF Len(s) = 1 THEN s[1] ELSE PyMax2(s[1], MaxSeq(Tail(s)))

(***************************************************************************)
(* Field values as they arrive from JSON: a number, a string that parses   *)
(* as a number, or anything else (a non-numeric string, null).             *)
(***************************************************************************)
Num(r) == [k |-> "num", v |-> r]
NumStr(r) == [k |-> "numstr", v |-> r]
Bad == [k |-> "bad", v |-> RZero]

Ok(r) == [ok |-> TRUE, v |-> r]
Raise == [ok |-> FALSE, v |-> RZero]

(* float(v): the number, or ValueError/TypeError *)
PyFloat(val) == IF val.k \in {"num", "numstr"} THEN Ok(val.v) ELSE Raise

(* int(v): truncation toward zero of a number, the integer a string spells, or ValueError *)
PyInt(val) ==
  IF val.k = "num"
    THEN Ok(RInt(IF val.v.n >= 0 THEN val.v.n \div val.v.d ELSE -((-val.v.n) \div val.v.d)))
    ELSE IF val.k = "numstr" /\ val.v.d = 1 THEN Ok(val.v) ELSE Raise

to_num(val, d) == IF PyFloat(val).ok THEN PyFloat(val).v ELSE d

(* dict.get(key, default) *)
Get(rec, key, default) == IF key \in rec.keys THEN rec[key] ELSE default

(***************************************************************************)
(* Strings.  Python orders str by code point; Chars gives the code points  *)
(* of the strings the program orders (asset ids), the generated ids being  *)
(* shortened to two hexadecimal digits.                                    *)
(***************************************************************************)
Chars ==
  [ x \in {"", "db-1", "srv-1", "srv-2", "3f", "e7"} |->
      CASE x = "" -> <<>>
        [] x = "db-1" -> <<100, 98, 45, 49>>
        [] x = "srv-1" -> <<115, 114, 118, 45, 49>>
        [] x = "srv-2" -> <<115, 114, 118, 45, 50>>
        [] x = "3f" -> <<51, 102>>
        [] x = "e7" -> <<101, 55>> ]

RECURSIVE SeqLess(_, _)
SeqLess(a, b) ==
  IF b = <<>> THEN FALSE
  ELSE IF a = <<>> THEN TRUE
  ELSE IF a[1] # b[1] THEN a[1] < b[1]
  ELSE SeqLess(Tail(a), Tail(b))

StrLess(a, b) == SeqLess(Chars[a], Chars[b])

(* the value None of an absent key, and the ids uuid4 can return *)
NoneStr == "<None>"
UuidPool == {"3f", "e7"}

(***************************************************************************)
(* Rule.match and Rule.score                                               *)
(***************************************************************************)
(* RuleMatch with the tag condition assigning its own outcome to ok, so that *)
(* matching tags hide an earlier failed condition                          *)
RuleMatchTagsOverride(r, asset, event) ==
  LET cond == r.when
      ok1 == IF "event_type" \in cond.keys
               THEN Get(event, "type", "None") \in Range(cond.event_type)
               ELSE TRUE
      ok2 == IF "asset_type" \in cond.keys
               THEN ok1 /\ (Get(asset, "type", "None") \in Range(cond.asset_type))
               ELSE ok1
      ok3 == IF "asset_tags_any" \in cond.keys
               THEN Range(Get(asset, "tags", <<>>)) \cap Range(cond.asset_tags_any) # {}
               ELSE ok2
      ok4 == IF "event_labels_any" \in cond.keys
                  /\ Range(Get(event, "labels", <<>>)) \cap Range(cond.event_labels_any) = {}
               THEN FALSE
               ELSE ok3
      ok5 == IF "event_severity_gte" \in cond.keys
               THEN ok4 /\ RLeq(cond.event_severity_gte,
                                to_num(Get(event, "severity", Num(RZero)), RZero))
               ELSE ok4
  IN  ok5

RuleMatch(r, asset, event) ==
  LET cond == r.when
      ok1 == IF "event_type" \in cond.keys
               THEN Get(event, "type", "None") \in Range(cond.event_type)
               ELSE TRUE
      ok2 == IF "asset_type" \in cond.keys
               THEN ok1 /\ (Get(asset, "type", "None") \in Range(cond.asset_type))
               ELSE ok1
      ok3 == IF "asset_tags_any" \in cond.keys
                  /\ Range(Get(asset, "tags", <<>>)) \cap Range(cond.asset_tags_any) = {}
               THEN FALSE
               ELSE ok2
      ok4 == IF "event_labels_any" \in cond.keys
                  /\ Range(Get(event, "labels", <<>>)) \cap Range(cond.event_labels_any) = {}
               THEN FALSE
               ELSE ok3
      ok5 == IF "event_severity_gte" \in cond.keys
               THEN ok4 /\ RLeq(cond.event_severity_gte,
                                to_num(Get(event, "severity", Num(RZero)), RZero))
               ELSE ok4
  IN  ok5

(* sum of the values of the bonus entries whose key is in the given set *)
RECURSIVE BonusSum(_, _)
BonusSum(items, present) ==
  IF items = <<>> THEN RZero
  ELSE RAdd(IF items[1].k \in present THEN items[1].v ELSE RZero,
            BonusSum(Tail(items), present))

(* RuleScore without the floor at 0 *)
RuleScoreNoClamp(r, asset, event) ==
  LET c == r.calc
      sev == PyFloat(Get(event, "severity", Num(RZero)))
      crit == PyFloat(Get(asset, "criticality", Num(RZero)))
      lbonus == IF "if_label_bonus" \in c.keys
                  THEN BonusSum(c.if_label_bonus, Range(Get(event, "labels", <<>>)))
                  ELSE RZero
      tbonus == IF "if_tag_bonus" \in c.keys
                  THEN BonusSum(c.if_tag_bonus, Range(Get(asset, "tags", <<>>)))
                  ELSE RZero
      s == RAdd(RAdd(RAdd(Get(c, "base", RZero), RMul(sev.v, Get(c, "mul_severity", RZero))),
                     RMul(crit.v, Get(c, "mul_criticality", RZero))),
                RAdd(lbonus, tbonus))
  IN  IF ~sev.ok \/ ~crit.ok THEN Raise ELSE Ok(RMul(s, r.weight))

RuleScore(r, asset, event) ==
  LET c == r.calc
      base == Get(c, "base", RZero)
      sev == PyFloat(Get(event, "severity", Num(RZero)))
      crit == PyFloat(Get(asset, "criticality", Num(RZero)))
      mul_sev == Get(c, "mul_severity", RZero)
      mul_crit == Get(c, "mul_criticality", RZero)
      lbonus == IF "if_label_bonus" \in c.keys
                  THEN BonusSum(c.if_label_bonus, Range(Get(event, "labels", <<>>)))
                  ELSE RZero
      tbonus == IF "if_tag_bonus" \in c.keys
                  THEN BonusSum(c.if_tag_bonus, Range(Get(asset, "tags", <<>>)))
                  ELSE RZero
      s == RAdd(RAdd(RAdd(base, RMul(sev.v, mul_sev)), RMul(crit.v, mul_crit)),
                RAdd(lbonus, tbonus))
  IN  IF ~sev.ok \/ ~crit.ok THEN Raise
      ELSE Ok(PyMax2(RZero, RMul(s, r.weight)))

(***************************************************************************)
(* RiskEngine.percentile                                                   *)
(***************************************************************************)
RECURSIVE Insert(_, _)
Insert(x, s) ==
  IF s = <<>> THEN <<x>>
  ELSE IF RLess(x, s[1]) THEN <<x>> \o s
  ELSE <<s[1]>> \o Insert(x, Tail(s))

RECURSIVE Sorted(_)
Sorted(vals) == IF vals = <<>> THEN <<>> ELSE Insert(vals[Len(vals)], Sorted(SubSeq(vals, 1, Len(vals) - 1)))

(* Percentile without interpolation: the element at floor(k) *)
PercentileLower(vals, p) ==
  LET s == Sorted(vals)
      k == RMul(RInt(Len(s) - 1), R(p, 100))
  IN  IF s = <<>> THEN RZero ELSE s[RFloor(k) + 1]

Percentile(vals, p) ==
  LET s == Sorted(vals)
      k == RMul(RInt(Len(s) - 1), R(p, 100))
      f == RFloor(k)
      c == RCeil(k)
      d0 == RMul(s[f + 1], RSub(RInt(c), k))
      d1 == RMul(s[c + 1], RSub(k, RInt(f)))
  IN  IF s = <<>> THEN RZero
      ELSE IF f = c THEN s[f + 1]
      ELSE RAdd(d0, d1)

(***************************************************************************)
(* Input documents: the JSON files the loaders read.                       *)
(***************************************************************************)
AssetKeys == {"id", "name", "type", "tags", "criticality"}
EventKeys == {"id", "ts", "asset", "type", "severity", "labels"}

RawAsset(keys, id, type, tags, crit) ==
  [keys |-> keys, id |-> id, name |-> id, type |-> type, tags |-> tags, criticality |-> crit]

RawEvent(keys, id, ts, asset, type, sev, labels) ==
  [keys |-> keys, id |-> id, ts |-> ts, asset |-> asset, type |-> type,
   severity |-> sev, labels |-> labels]

(* the sample assets and events of the 'gen' command *)
A_srv1 == RawAsset(AssetKeys, "srv-1", "vm", <<"prod", "pci">>, Num(R(9, 10)))
A_srv2 == RawAsset(AssetKeys, "srv-2", "vm", <<"dev">>, Num(R(4, 10)))
A_db1 == RawAsset(AssetKeys, "db-1", "db", <<"prod", "pii">>, Num(R(95, 100)))
E_e1 == RawEvent(EventKeys, "e1", Num(RInt(100)), "srv-1", "alert", Num(R(8, 10)), <<"exfil">>)
E_e2 == RawEvent(EventKeys, "e2", Num(RInt(100)), "db-1", "anomaly", Num(R(6, 10)), <<"lateral">>)
E_e3 == RawEvent(EventKeys, "e3", Num(RInt(100)), "srv-2", "incident", Num(R(3, 10)), <<>>)

(* further records: defaults, convertible strings, malformed fields *)
A_anon == RawAsset({}, "", "", <<>>, Bad)
A_srv2s == RawAsset(AssetKeys \ {"name"}, "srv-2", "vm", <<"prod">>, NumStr(R(9, 10)))
A_badcrit == RawAsset(AssetKeys, "db-1", "db", <<"pii">>, Bad)
E_anon == RawEvent({}, "", Bad, "", "", Bad, <<>>)
E_ghost == RawEvent(EventKeys, "g1", NumStr(RInt(7)), "ghost", "alert", Num(RInt(1)), <<"exfil">>)
E_x1 == RawEvent(EventKeys, "x1", Num(R(15, 2)), "srv-2", "alert", Num(R(8, 10)), <<>>)
E_x2 == RawEvent(EventKeys, "x2", Num(RInt(9)), "srv-1", "other", NumStr(R(2, 10)), <<"lateral", "exfil">>)
E_x3 == RawEvent(EventKeys \ {"id"}, "", Num(RInt(9)), "srv-1", "incident", Num(RInt(0)), <<>>)
E_badsev == RawEvent(EventKeys, "b1", Num(RInt(5)), "srv-2", "alert", Bad, <<>>)
E_badts == RawEvent(EventKeys, "b2", NumStr(R(1, 2)), "srv-1", "alert", Num(RInt(1)), <<>>)

AssetFiles ==
  { <<A_srv1, A_srv2, A_db1>>, <<A_srv2s, A_srv1>>, <<A_anon>>,
    <<A_srv1, A_badcrit, A_srv2>> }

EventFiles ==
  { <<E_e1, E_e2, E_e3>>, <<E_x1, E_x2>>, <<E_ghost, E_e1>>, <<E_anon>>,
    <<E_x2, E_x3>>, <<E_e1, E_badsev, E_e3>>, <<E_badts>> }

(* readings of the clock, for events without ts *)
Clock == {200, 201}

(***************************************************************************)
(* Policy documents.                                                       *)
(***************************************************************************)
WhenKeys == {"event_type", "asset_type", "asset_tags_any", "event_labels_any", "event_severity_gte"}
RuleKeys == {"id", "name", "weight", "when", "calc"}

When(keys, et, at, tags, labs, sev) ==
  [keys |-> keys, event_type |-> et, asset_type |-> at, asset_tags_any |-> tags,
   event_labels_any |-> labs, event_severity_gte |-> sev]

Calc(keys, base, ms, mc, lb, tb) ==
  [keys |-> keys, base |-> base, mul_severity |-> ms, mul_criticality |-> mc,
   if_label_bonus |-> lb, if_tag_bonus |-> tb]

NoWhen == When({}, <<>>, <<>>, <<>>, <<>>, RZero)
NoCalc == Calc({}, RZero, RZero, RZero, <<>>, <<>>)

RawRule(keys, id, name, weight, when, calc) ==
  [keys |-> keys, id |-> id, name |-> name, weight |-> weight, when |-> when, calc |-> calc]

KV(k, v) == [k |-> k, v |-> RInt(v)]

bootstrap_policy ==
  [ keys |-> {"id", "name", "version", "rules"},
    id |-> "default-policy", name |-> "Default Risk Policy", version |-> "1.0",
    rules |-> <<
      RawRule(RuleKeys, "sev-asset", "Severity and criticality", Num(RInt(1)),
              When({"event_type"}, <<"alert", "anomaly", "incident">>, <<>>, <<>>, <<>>, RZero),
              Calc({"base", "mul_severity", "mul_criticality"}, RZero, RInt(60), RInt(50), <<>>, <<>>)),
      RawRule(RuleKeys, "label-bonus", "Label bonus", Num(RInt(1)),
              When({"event_labels_any"}, <<>>, <<>>, <<>>, <<"privilege_escalation", "exfil", "lateral">>, RZero),
              Calc({"base", "if_label_bonus"}, RZero, RZero, RZero,
                   <<KV("privilege_escalation", 30), KV("exfil", 40), KV("lateral", 20)>>, <<>>)),
      RawRule(RuleKeys, "tag-bonus", "Asset tag bonus", Num(RInt(1)),
              When({"asset_tags_any"}, <<>>, <<>>, <<"prod", "pci", "pii">>, <<>>, RZero),
              Calc({"base", "if_tag_bonus"}, RInt(10), RZero, RZero, <<>>,
                   <<KV("prod", 20), KV("pci", 25), KV("pii", 25)>>)) >> ]

(* one constant rule without id, name, weight or when *)
PD_flat ==
  [ keys |-> {"rules"}, id |-> "", name |-> "", version |-> "",
    rules |-> << RawRule({"calc"}, "", "", Bad, NoWhen,
                         Calc({"base"}, RInt(10), RZero, RZero, <<>>, <<>>)) >> ]

(* negative weight, base, multiplier and bonuses; a zero score; all five conditions *)
PD_neg ==
  [ keys |-> {"id", "version", "rules"}, id |-> "neg", name |-> "", version |-> "2.0",
    rules |-> <<
      RawRule(RuleKeys, "inv", "Inverted", Num(RInt(-1)),
              When({"event_severity_gte"}, <<>>, <<>>, <<>>, <<>>, R(1, 2)),
              Calc({"base", "mul_severity"}, RInt(15), RInt(-10), RZero, <<>>, <<>>)),
      RawRule(RuleKeys \ {"name"}, "pen", "", NumStr(RInt(2)),
              When({"asset_type", "event_type"}, <<"alert", "other">>, <<"vm">>, <<>>, <<>>, RZero),
              Calc({"base", "mul_criticality", "if_tag_bonus", "if_label_bonus"},
                   RInt(30), RZero, RInt(-10), <<KV("exfil", -5)>>, <<KV("prod", -50), KV("dev", 3)>>)),
      RawRule(RuleKeys, "all", "All five", Num(R(1, 2)),
              When(WhenKeys, <<"other", "incident">>, <<"vm", "db">>, <<"pci", "dev">>,
                   <<"lateral">>, R(1, 10)),
              Calc({"base"}, RInt(7), RZero, RZero, <<>>, <<>>)),
      RawRule(RuleKeys \ {"when"}, "nil", "Nothing", Num(RInt(3)), NoWhen, NoCalc) >> ]

(* a weight that float() rejects *)
PD_badweight ==
  [ keys |-> {"id", "rules"}, id |-> "bw", name |-> "", version |-> "",
    rules |-> << RawRule(RuleKeys, "w", "W", Bad, NoWhen, NoCalc) >> ]

PD_norules == [ keys |-> {"id", "name"}, id |-> "empty", name |-> "Empty", version |-> "", rules |-> <<>> ]

(* a policy file: readable JSON (doc) or not *)
PolicyFiles ==
  { [readable |-> FALSE, doc |-> PD_norules], [readable |-> TRUE, doc |-> bootstrap_policy],
    [readable |-> TRUE, doc |-> PD_flat], [readable |-> TRUE, doc |-> PD_neg],
    [readable |-> TRUE, doc |-> PD_badweight], [readable |-> TRUE, doc |-> PD_norules] }

(* a.get('id') or nid(): the records of a document that get a generated id *)
Falsy(rec) == ("id" \notin rec.keys) \/ rec.id = ""
NeedIds(recs) == Cardinality({i \in 1..Len(recs) : Falsy(recs[i])})

(***************************************************************************)
(* Rule, Policy, load_or_default                                           *)
(***************************************************************************)
RuleOf(r, id) ==
  [id |-> id, name |-> Get(r, "name", id),
   weight |-> PyFloat(Get(r, "weight", Num(RInt(1)))).v,
   when |-> Get(r, "when", NoWhen), calc |-> Get(r, "calc", NoCalc)]

RECURSIVE RulesOf(_, _)
RulesOf(recs, fresh) ==
  IF recs = <<>> THEN [ok |-> TRUE, rules |-> <<>>]
  ELSE
    LET r == recs[1]
        id == IF Falsy(r) THEN fresh[1] ELSE r.id
        rest == RulesOf(Tail(recs), IF Falsy(r) THEN Tail(fresh) ELSE fresh)
    IN  IF ~PyFloat(Get(r, "weight", Num(RInt(1)))).ok THEN [ok |-> FALSE, rules |-> <<>>]
        ELSE [ok |-> rest.ok, rules |-> <<RuleOf(r, id)>> \o rest.rules]

PolicyOf(data, fresh) ==
  LET id == IF Falsy(data) THEN fresh[1] ELSE data.id
      rs == RulesOf(Get(data, "rules", <<>>), IF Falsy(data) THEN Tail(fresh) ELSE fresh)
  IN  [ok |-> rs.ok,
       policy |-> [id |-> id, name |-> Get(data, "name", id),
                   version |-> Get(data, "version", "1.0"), rules |-> rs.rules]]

PolicyIds(data) == (IF Falsy(data) THEN 1 ELSE 0) + NeedIds(Get(data, "rules", <<>>))

load_or_default(file, fresh) ==
  IF file.readable /\ PolicyOf(file.doc, fresh).ok
    THEN PolicyOf(file.doc, fresh).policy
    ELSE PolicyOf(bootstrap_policy, <<>>).policy

(***************************************************************************)
(* State.                                                                  *)
(*   assets     AssetStore.assets: id -> asset record                      *)
(*   events     EventStore.events                                          *)
(*   policy     the Policy of load_or_default                              *)
(*   results    RiskEngine.results                                         *)
(*   by_asset   RiskEngine.by_asset, in insertion order: [aid, vals]       *)
(*   phase      "setup" (stores being loaded), "loaded" (policy read),     *)
(*              "engine" (RiskEngine constructed), "crashed" (uncaught     *)
(*              exception)                                                 *)
(*   err        the operation that raised, "" if none                      *)
(*   op, out    the last operation and what it returned or wrote           *)
(*   evals, assetLoads   number of evaluate() and AssetStore.load calls    *)
(*   issued     the ids nid() has returned                                 *)
(*   call       the last direct call of a static or rule function          *)
(***************************************************************************)
VARIABLES assets, events, policy, results, by_asset, phase, err, op, out,
          evals, assetLoads, issued, call

vars == <<assets, events, policy, results, by_asset, phase, err, op, out,
          evals, assetLoads, issued, call>>

NoPolicy == [id |-> "", name |-> "", version |-> "", rules |-> <<>>]
NoOut == [agg |-> <<>>, summary |-> <<>>, details |-> <<>>, rows |-> <<>>]
NoCall == [fn |-> "", rule |-> RuleOf(RawRule({}, "", "", Bad, NoWhen, NoCalc), ""),
           asset |-> RawAsset({}, "", "", <<>>, Bad),
           event |-> RawEvent({}, "", Bad, "", "", Bad, <<>>),
           vals |-> <<>>, p |-> 0, ok |-> TRUE, match |-> FALSE, num |-> RZero]

Init ==
  /\ assets = <<>>
  /\ events = <<>>
  /\ policy = NoPolicy
  /\ results = <<>>
  /\ by_asset = <<>>
  /\ phase = "setup"
  /\ err = ""
  /\ op = ""
  /\ out = NoOut
  /\ evals = 0
  /\ assetLoads = 0
  /\ issued = {}
  /\ call = NoCall

(* nid(): ids not returned before, as many as the document has records without id *)
FreshSeqs(k) ==
  {f \in [1..k -> UuidPool \ issued] : \A i, j \in 1..k : i # j => f[i] # f[j]}

(***************************************************************************)
(* AssetStore.load                                                         *)
(***************************************************************************)
RECURSIVE LoadAssetRecs(_, _, _)
LoadAssetRecs(recs, store, fresh) ==
  IF recs = <<>> THEN [ok |-> TRUE, store |-> store]
  ELSE
    LET a == recs[1]
        aid == IF Falsy(a) THEN fresh[1] ELSE a.id
        rest == IF Falsy(a) THEN Tail(fresh) ELSE fresh
        crit == PyFloat(Get(a, "criticality", Num(R(1, 2))))
        rec == [keys |-> AssetKeys, id |-> aid, name |-> Get(a, "name", aid),
                type |-> Get(a, "type", ""), tags |-> Get(a, "tags", <<>>),
                criticality |-> Num(crit.v)]
    IN  IF ~crit.ok THEN [ok |-> FALSE, store |-> store]
        ELSE LoadAssetRecs(Tail(recs), (aid :> rec) @@ store, rest)

LoadAssets ==
  /\ phase = "setup"
  /\ assetLoads < MaxAssetLoads
  /\ \E file \in AssetFiles : \E fresh \in FreshSeqs(NeedIds(file)) :
       LET r == LoadAssetRecs(file, assets, fresh)
       IN  /\ assets' = r.store
           /\ issued' = issued \cup (Range(fresh) \cap DOMAIN r.store)
           /\ phase' = IF r.ok THEN phase ELSE "crashed"
           /\ err' = IF r.ok THEN err ELSE "load"
  /\ assetLoads' = assetLoads + 1
  /\ op' = "load"
  /\ UNCHANGED <<events, policy, results, by_asset, out, evals, call>>

(***************************************************************************)
(* EventStore.load                                                         *)
(***************************************************************************)
RECURSIVE LoadEventRecs(_, _, _, _)
LoadEventRecs(recs, store, fresh, now) ==
  IF recs = <<>> THEN [ok |-> TRUE, store |-> store]
  ELSE
    LET e == recs[1]
        eid == IF Falsy(e) THEN fresh[1] ELSE e.id
        rest == IF Falsy(e) THEN Tail(fresh) ELSE fresh
        ts == PyInt(Get(e, "ts", Num(RInt(now))))
        sev == PyFloat(Get(e, "severity", Num(R(1, 2))))
        rec == [keys |-> EventKeys, id |-> eid, ts |-> ts.v.n,
                asset |-> Get(e, "asset", NoneStr), type |-> Get(e, "type", ""),
                severity |-> Num(sev.v), labels |-> Get(e, "labels", <<>>)]
    IN  IF ~ts.ok \/ ~sev.ok THEN [ok |-> FALSE, store |-> store]
        ELSE LoadEventRecs(Tail(recs), Append(store, rec), rest, now)

LoadEvents ==
  /\ phase = "setup"
  /\ \E file \in EventFiles : \E fresh \in FreshSeqs(NeedIds(file)) : \E now \in Clock :
       LET r == LoadEventRecs(file, events, fresh, now)
       IN  /\ Len(events) + Len(file) <= MaxEvents
           /\ events' = r.store
           /\ issued' = issued \cup (Range(fresh) \cap {r.store[i].id : i \in 1..Len(r.store)})
           /\ phase' = IF r.ok THEN phase ELSE "crashed"
           /\ err' = IF r.ok THEN err ELSE "load"
  /\ op' = "load"
  /\ UNCHANGED <<assets, policy, results, by_asset, out, evals, assetLoads, call>>

(***************************************************************************)
(* load_or_default as an operation                                         *)
(***************************************************************************)
LoadPolicy ==
  /\ phase = "setup"
  /\ \E file \in PolicyFiles : \E fresh \in FreshSeqs(PolicyIds(file.doc)) :
       /\ policy' = load_or_default(file, fresh)
       /\ issued' = issued \cup
            (Range(fresh) \cap ({policy'.id} \cup {policy'.rules[i].id : i \in 1..Len(policy'.rules)}))
  /\ phase' = "loaded"
  /\ op' = "load"
  /\ UNCHANGED <<assets, events, results, by_asset, err, out, evals, assetLoads, call>>

(***************************************************************************)
(* RiskEngine                                                              *)
(***************************************************************************)
NewEngine ==
  /\ phase = "loaded"
  /\ results' = <<>>
  /\ by_asset' = <<>>
  /\ phase' = "engine"
  /\ op' = "new"
  /\ UNCHANGED <<assets, events, policy, err, out, evals, assetLoads, issued, call>>

(* the rule loop of evaluate: the applied list, the running total, or the exception of score *)
(* ApplyRules recording a matching rule's score even when it is zero *)
RECURSIVE ApplyRulesKeepZero(_, _, _, _)
ApplyRulesKeepZero(rules, a, e, acc) ==
  IF rules = <<>> THEN acc
  ELSE
    LET r == rules[1]
        val == RuleScore(r, a, e)
    IN  IF ~RuleMatch(r, a, e) THEN ApplyRulesKeepZero(Tail(rules), a, e, acc)
        ELSE IF ~val.ok THEN [ok |-> FALSE, total |-> acc.total, applied |-> acc.applied]
        ELSE ApplyRulesKeepZero(Tail(rules), a, e,
               [ok |-> TRUE, total |-> RAdd(acc.total, val.v),
                applied |-> Append(acc.applied, [rule |-> r.id, name |-> r.name, score |-> val.v])])

RECURSIVE ApplyRules(_, _, _, _)
ApplyRules(rules, a, e, acc) ==
  IF rules = <<>> THEN acc
  ELSE
    LET r == rules[1]
        val == RuleScore(r, a, e)
    IN  IF ~RuleMatch(r, a, e) THEN ApplyRules(Tail(rules), a, e, acc)
        ELSE IF ~val.ok THEN [ok |-> FALSE, total |-> acc.total, applied |-> acc.applied]
        ELSE IF val.v # RZero
          THEN ApplyRules(Tail(rules), a, e,
                 [ok |-> TRUE, total |-> RAdd(acc.total, val.v),
                  applied |-> Append(acc.applied, [rule |-> r.id, name |-> r.name, score |-> val.v])])
        ELSE ApplyRules(Tail(rules), a, e, acc)

(* AppendScore assigning the list instead of appending to it *)
AppendScoreOverwrite(by, aid, total) ==
  IF \E i \in 1..Len(by) : by[i].aid = aid
    THEN [i \in 1..Len(by) |->
            IF by[i].aid = aid THEN [aid |-> aid, vals |-> <<total>>] ELSE by[i]]
    ELSE Append(by, [aid |-> aid, vals |-> <<total>>])

(* self.by_asset[aid].append(total) on a defaultdict(list) *)
AppendScore(by, aid, total) ==
  IF \E i \in 1..Len(by) : by[i].aid = aid
    THEN [i \in 1..Len(by) |->
            IF by[i].aid = aid THEN [aid |-> aid, vals |-> Append(by[i].vals, total)] ELSE by[i]]
    ELSE Append(by, [aid |-> aid, vals |-> <<total>>])

(* EvalEvents leaving the loop at the first event whose asset is unknown *)
RECURSIVE EvalEventsBreak(_, _, _, _, _)
EvalEventsBreak(evs, store, rules, res, by) ==
  IF evs = <<>> THEN [ok |-> TRUE, results |-> res, by_asset |-> by]
  ELSE
    LET e == evs[1]
        known == e.asset \in DOMAIN store
        a == store[e.asset]
        sc == ApplyRules(rules, a, e, [ok |-> TRUE, total |-> RZero, applied |-> <<>>])
    IN  IF ~known THEN [ok |-> TRUE, results |-> res, by_asset |-> by]
        ELSE IF ~sc.ok THEN [ok |-> FALSE, results |-> res, by_asset |-> by]
        ELSE EvalEventsBreak(Tail(evs), store, rules,
               Append(res, [event |-> e.id, asset |-> a.id, score |-> sc.total,
                            applied |-> sc.applied, ts |-> e.ts]),
               AppendScore(by, a.id, sc.total))

RECURSIVE EvalEvents(_, _, _, _, _)
EvalEvents(evs, store, rules, res, by) ==
  IF evs = <<>> THEN [ok |-> TRUE, results |-> res, by_asset |-> by]
  ELSE
    LET e == evs[1]
        known == e.asset \in DOMAIN store
        a == store[e.asset]
        sc == ApplyRules(rules, a, e, [ok |-> TRUE, total |-> RZero, applied |-> <<>>])
    IN  IF ~known THEN EvalEvents(Tail(evs), store, rules, res, by)
        ELSE IF ~sc.ok THEN [ok |-> FALSE, results |-> res, by_asset |-> by]
        ELSE EvalEvents(Tail(evs), store, rules,
               Append(res, [event |-> e.id, asset |-> a.id, score |-> sc.total,
                            applied |-> sc.applied, ts |-> e.ts]),
               AppendScore(by, a.id, sc.total))

Evaluate ==
  /\ phase = "engine"
  /\ evals < MaxEvals
  /\ LET r == EvalEvents(events, assets, policy.rules, results, by_asset)
     IN  /\ results' = r.results
         /\ by_asset' = r.by_asset
         /\ phase' = IF r.ok THEN phase ELSE "crashed"
         /\ err' = IF r.ok THEN err ELSE "evaluate"
  /\ evals' = evals + 1
  /\ op' = "evaluate"
  /\ out' = NoOut
  /\ UNCHANGED <<assets, events, policy, assetLoads, issued, call>>

(* AggOf leaving out the assets whose scores sum to zero *)
RECURSIVE AggOfSkipZero(_)
AggOfSkipZero(by) ==
  IF by = <<>> THEN <<>>
  ELSE
    LET vals == by[1].vals
        m == [aid |-> by[1].aid, count |-> Len(vals), sum |-> SumSeq(vals),
              avg |-> RDivInt(SumSeq(vals), Len(vals)), max |-> MaxSeq(vals),
              p95 |-> Percentile(vals, 95), p99 |-> Percentile(vals, 99)]
    IN  IF SumSeq(vals) = RZero THEN AggOfSkipZero(Tail(by)) ELSE <<m>> \o AggOfSkipZero(Tail(by))

RECURSIVE AggOf(_)
AggOf(by) ==
  IF by = <<>> THEN <<>>
  ELSE
    LET vals == by[1].vals
        m == [aid |-> by[1].aid, count |-> Len(vals), sum |-> SumSeq(vals),
              avg |-> RDivInt(SumSeq(vals), Len(vals)), max |-> MaxSeq(vals),
              p95 |-> Percentile(vals, 95), p99 |-> Percentile(vals, 99)]
    IN  IF vals = <<>> THEN AggOf(Tail(by)) ELSE <<m>> \o AggOf(Tail(by))

Aggregate ==
  /\ phase = "engine"
  /\ op' = "aggregate"
  /\ out' = [NoOut EXCEPT !.agg = AggOf(by_asset)]
  /\ UNCHANGED <<assets, events, policy, results, by_asset, phase, err, evals,
                 assetLoads, issued, call>>

(***************************************************************************)
(* export_report: the summary, sorted by (-max, -avg, asset).              *)
(***************************************************************************)
SummaryLess(x, y) ==
  \/ RLess(y.max, x.max)
  \/ x.max = y.max /\ RLess(y.avg, x.avg)
  \/ x.max = y.max /\ x.avg = y.avg /\ StrLess(x.asset, y.asset)

(* list.sort is stable: an element goes after the elements it is not less than *)
RECURSIVE InsertSummary(_, _)
InsertSummary(x, s) ==
  IF s = <<>> THEN <<x>>
  ELSE IF SummaryLess(x, s[1]) THEN <<x>> \o s
  ELSE <<s[1]>> \o InsertSummary(x, Tail(s))

RECURSIVE SortSummary(_)
SortSummary(rows) ==
  IF rows = <<>> THEN <<>>
  ELSE InsertSummary(rows[Len(rows)], SortSummary(SubSeq(rows, 1, Len(rows) - 1)))

SummaryRow(store, m) ==
  LET a == IF m.aid \in DOMAIN store THEN store[m.aid]
           ELSE [keys |-> {"id", "name"}, id |-> m.aid, name |-> m.aid, type |-> ""]
  IN  [asset |-> a.id, name |-> Get(a, "name", a.id), type |-> Get(a, "type", ""),
       avg |-> m.avg, max |-> m.max, p95 |-> m.p95, p99 |-> m.p99, count |-> m.count]

ExportReport ==
  /\ phase = "engine"
  /\ LET agg == AggOf(by_asset)
     IN  out' = [NoOut EXCEPT
                   !.summary = SortSummary([i \in 1..Len(agg) |-> SummaryRow(assets, agg[i])]),
                   !.details = results]
  /\ op' = "report"
  /\ UNCHANGED <<assets, events, policy, results, by_asset, phase, err, evals,
                 assetLoads, issued, call>>

(***************************************************************************)
(* The 'top' command: rows of rounded values, sorted by (-max, -avg).      *)
(***************************************************************************)
RECURSIVE IsPow2(_)
IsPow2(d) == IF d = 1 THEN TRUE ELSE IF d % 2 = 1 THEN FALSE ELSE IsPow2(d \div 2)

(* round(x, 2) for x >= 0: the hundredth nearest to x.  A float is rounded *)
(* correctly from its binary value: a tie goes to the even hundredth when  *)
(* x is a binary fraction (Ambiguous is false), and to the side of the     *)
(* float nearest x otherwise, which is either side here (up).              *)
Ambiguous(x) ==
  LET y == RMul(x, RInt(100))
  IN  RSub(RMul(y, RInt(2)), RInt(2 * RFloor(y))) = RInt(1) /\ ~IsPow2(x.d)

Round2(x, up) ==
  LET y == RMul(x, RInt(100))
      fl == RFloor(y)
      twice == RSub(RMul(y, RInt(2)), RInt(2 * fl))
  IN  IF RLess(twice, RInt(1)) THEN R(fl, 100)
      ELSE IF RLess(RInt(1), twice) THEN R(fl + 1, 100)
      ELSE IF IsPow2(x.d) THEN R(IF fl % 2 = 0 THEN fl ELSE fl + 1, 100)
      ELSE IF up THEN R(fl + 1, 100) ELSE R(fl, 100)

RowLess(x, y) ==
  \/ RLess(y.max, x.max)
  \/ x.max = y.max /\ RLess(y.avg, x.avg)

RECURSIVE InsertRow(_, _)
InsertRow(x, s) ==
  IF s = <<>> THEN <<x>>
  ELSE IF RowLess(x, s[1]) THEN <<x>> \o s
  ELSE <<s[1]>> \o InsertRow(x, Tail(s))

RECURSIVE SortRows(_)
SortRows(rows) ==
  IF rows = <<>> THEN <<>>
  ELSE InsertRow(rows[Len(rows)], SortRows(SubSeq(rows, 1, Len(rows) - 1)))

Top ==
  /\ phase = "engine"
  /\ LET agg == AggOf(by_asset)
         n == Len(agg)
     IN  \E upAvg \in SUBSET {i \in 1..n : Ambiguous(agg[i].avg)} :
         \E upMax \in SUBSET {i \in 1..n : Ambiguous(agg[i].max)} :
           out' = [NoOut EXCEPT !.rows = SortRows([i \in 1..n |->
                     [asset |-> agg[i].aid, name |-> Get(assets[agg[i].aid], "name", ""),
                      avg |-> Round2(agg[i].avg, i \in upAvg),
                      max |-> Round2(agg[i].max, i \in upMax),
                      count |-> agg[i].count]])]
  /\ op' = "top"
  /\ UNCHANGED <<assets, events, policy, results, by_asset, phase, err, evals,
                 assetLoads, issued, call>>

Next ==
  \/ LoadAssets
  \/ LoadEvents
  \/ LoadPolicy
  \/ NewEngine
  \/ Evaluate
  \/ Aggregate
  \/ ExportReport
  \/ Top

Spec == Init /\ [][Next]_vars

(***************************************************************************)
(* Direct calls of Rule.match, Rule.score, RiskEngine.percentile and       *)
(* RiskEngine(assets, events, policy).evaluate() on in-memory records,     *)
(* among them records with absent keys and non-numeric fields.             *)
(***************************************************************************)
FnAssets ==
  { RawAsset(AssetKeys, "srv-1", "vm", <<"prod", "pci">>, Num(R(9, 10))),
    RawAsset(AssetKeys, "srv-2", "db", <<"dev">>, NumStr(R(1, 2))),
    RawAsset(AssetKeys, "db-1", "vm", <<"pii">>, Bad),
    RawAsset({"id"}, "db-1", "", <<>>, Bad) }

FnEvents ==
  { RawEvent(EventKeys, "e1", 100, "srv-1", "alert", Num(R(8, 10)), <<"exfil">>),
    RawEvent(EventKeys, "e2", 101, "srv-2", "other", Num(R(2, 10)), <<"lateral", "exfil">>),
    RawEvent(EventKeys, "e3", 102, "db-1", "incident", Bad, <<"exfil", "lateral">>),
    RawEvent(EventKeys, "e4", 103, "srv-1", "alert", NumStr(RInt(1)), <<>>),
    RawEvent({"id", "ts", "asset"}, "e5", 104, "srv-2", "", Bad, <<>>) }

FnWhens ==
  { When(ks, <<"alert", "incident">>, <<"vm">>, <<"prod", "pii">>, <<"exfil">>, sev) :
      ks \in SUBSET WhenKeys, sev \in {R(1, 2), RZero} }

FnCalcs ==
  { NoCalc,
    Calc({"base", "mul_severity", "mul_criticality"}, RInt(-5), RInt(60), RInt(-50), <<>>, <<>>),
    Calc({"base", "if_label_bonus", "if_tag_bonus"}, RInt(10), RInt(60), RInt(50),
         <<KV("exfil", 40), KV("lateral", -70)>>, <<KV("prod", -20), KV("dev", 5)>>),
    Calc({"mul_severity", "if_tag_bonus"}, RInt(10), RInt(10), RZero, <<>>, <<KV("pii", -1)>>) }

FnWeights == {RInt(-1), R(1, 2), RInt(2)}

FnRule(when, calc, w) == [id |-> "r", name |-> "r", weight |-> w, when |-> when, calc |-> calc]

PctValues == {RInt(0), RInt(1), RInt(2), RInt(3), RInt(4)}
PctPoints == {0, 25, 50, 95, 99, 100}
PctLists == UNION {[1..n -> PctValues] : n \in 0..MaxPctLen}

(* the calls to make: the function ("?" before it is applied) and its arguments *)
InitCalls ==
  {[NoCall EXCEPT !.fn = "?match", !.rule = FnRule(w, NoCalc, RInt(1)), !.asset = a, !.event = e] :
     w \in FnWhens, a \in FnAssets, e \in FnEvents}
  \cup
  {[NoCall EXCEPT !.fn = "?score", !.rule = FnRule(NoWhen, c[1], c[2]), !.asset = a, !.event = e] :
     c \in FnCalcs \X FnWeights, a \in FnAssets, e \in FnEvents}
  \cup
  {[NoCall EXCEPT !.fn = "?percentile", !.vals = vals, !.p = p] :
     vals \in PctLists, p \in PctPoints}

(* stores holding in-memory records as given, and an engine constructed over them *)
DirectStores == {as \in SUBSET FnAssets : \A a, b \in as : a.id = b.id => a = b}
DirectRules ==
  {<<FnRule(w, c, RInt(1))>> : w \in {x \in FnWhens : x.keys = {} /\ x.event_severity_gte = RZero},
                               c \in FnCalcs}

InitFn ==
  /\ results = <<>>
  /\ by_asset = <<>>
  /\ err = ""
  /\ op = ""
  /\ out = NoOut
  /\ evals = 0
  /\ assetLoads = 0
  /\ issued = {}
  /\ \/ /\ call \in InitCalls
        /\ assets = <<>>
        /\ events = <<>>
        /\ policy = NoPolicy
        /\ phase = "setup"
     \/ /\ call = NoCall
        /\ \E as \in DirectStores : assets = [id \in {a.id : a \in as} |-> CHOOSE a \in as : a.id = id]
        /\ \E e1 \in FnEvents : \E e2 \in FnEvents : events = <<e1, e2>>
        /\ \E rules \in DirectRules :
             policy = [id |-> "direct", name |-> "direct", version |-> "1.0", rules |-> rules]
        /\ phase = "engine"

CallMatch ==
  /\ call.fn = "?match"
  /\ call' = [call EXCEPT !.fn = "match", !.match = RuleMatch(call.rule, call.asset, call.event)]
  /\ UNCHANGED <<assets, events, policy, results, by_asset, phase, err, op, out,
                 evals, assetLoads, issued>>

CallScore ==
  /\ call.fn = "?score"
  /\ call' = [call EXCEPT !.fn = "score",
                          !.ok = RuleScore(call.rule, call.asset, call.event).ok,
                          !.num = RuleScore(call.rule, call.asset, call.event).v]
  /\ UNCHANGED <<assets, events, policy, results, by_asset, phase, err, op, out,
                 evals, assetLoads, issued>>

CallPercentile ==
  /\ call.fn = "?percentile"
  /\ call' = [call EXCEPT !.fn = "percentile", !.num = Percentile(call.vals, call.p)]
  /\ UNCHANGED <<assets, events, policy, results, by_asset, phase, err, op, out,
                 evals, assetLoads, issued>>

NextFn ==
  \/ CallMatch
  \/ CallScore
  \/ CallPercentile
  \/ Evaluate

SpecFn == InitFn /\ [][NextFn]_vars

(***************************************************************************)
(* Reference definitions the properties are stated with: what the          *)
(* specification says, written without the control flow of the code.       *)
(***************************************************************************)
SevOf(e) == Get(e, "severity", Num(RZero))
CritOf(a) == Get(a, "criticality", Num(RZero))
NumOrZero(val) == IF val.k = "bad" THEN RZero ELSE val.v

RefCond(k, w, a, e) ==
  CASE k = "event_type" -> \E i \in 1..Len(w.event_type) : w.event_type[i] = Get(e, "type", "None")
    [] k = "asset_type" -> \E i \in 1..Len(w.asset_type) : w.asset_type[i] = Get(a, "type", "None")
    [] k = "asset_tags_any" ->
         \E i \in 1..Len(w.asset_tags_any) : \E j \in 1..Len(Get(a, "tags", <<>>)) :
           w.asset_tags_any[i] = a.tags[j]
    [] k = "event_labels_any" ->
         \E i \in 1..Len(w.event_labels_any) : \E j \in 1..Len(Get(e, "labels", <<>>)) :
           w.event_labels_any[i] = e.labels[j]
    [] k = "event_severity_gte" ->
         ~RLess(NumOrZero(SevOf(e)), w.event_severity_gte)

RefMatch(r, a, e) == \A k \in r.when.keys : RefCond(k, r.when, a, e)

RefBonus(c, key, present) ==
  IF key \in c.keys
    THEN SumSeq([i \in 1..Len(c[key]) |->
                   IF \E j \in 1..Len(present) : present[j] = c[key][i].k THEN c[key][i].v ELSE RZero])
    ELSE RZero

RefKey(c, key) == IF key \in c.keys THEN c[key] ELSE RZero

(* weight * (base + severity*mul_severity + criticality*mul_criticality + bonuses) *)
RefWeighted(r, a, e) ==
  RMul(r.weight,
       RAdd(RAdd(RefKey(r.calc, "base"),
                 RAdd(RMul(SevOf(e).v, RefKey(r.calc, "mul_severity")),
                      RMul(CritOf(a).v, RefKey(r.calc, "mul_criticality")))),
            RAdd(RefBonus(r.calc, "if_label_bonus", Get(e, "labels", <<>>)),
                 RefBonus(r.calc, "if_tag_bonus", Get(a, "tags", <<>>)))))

RefScore(r, a, e) == IF RefWeighted(r, a, e).n < 0 THEN RZero ELSE RefWeighted(r, a, e)

RefApplied(rules, a, e) ==
  LET all == [i \in 1..Len(rules) |->
                [rule |-> rules[i].id, name |-> rules[i].name, score |-> RefScore(rules[i], a, e),
                 hit |-> RefMatch(rules[i], a, e) /\ RefScore(rules[i], a, e) # RZero]]
      hits == SelectSeq(all, LAMBDA x : x.hit)
  IN  [i \in 1..Len(hits) |-> [rule |-> hits[i].rule, name |-> hits[i].name, score |-> hits[i].score]]

RefResults(evs, store, rules) ==
  LET known == SelectSeq(evs, LAMBDA e : e.asset \in DOMAIN store)
  IN  [i \in 1..Len(known) |->
         LET ap == RefApplied(rules, store[known[i].asset], known[i])
         IN  [event |-> known[i].id, asset |-> known[i].asset,
              score |-> SumSeq([j \in 1..Len(ap) |-> ap[j].score]),
              applied |-> ap, ts |-> known[i].ts]]

(* the i-th smallest element (i from 1), by rank *)
OrderStat(vals, i) ==
  CHOOSE v \in Range(vals) :
    /\ Cardinality({j \in 1..Len(vals) : RLess(vals[j], v)}) < i
    /\ Cardinality({j \in 1..Len(vals) : RLeq(vals[j], v)}) >= i

RefPercentile(vals, p) ==
  LET n == Len(vals)
      k100 == (n - 1) * p
      f == k100 \div 100
      lo == OrderStat(vals, f + 1)
      hi == OrderStat(vals, f + 2)
  IN  IF n = 0 THEN RZero
      ELSE IF k100 % 100 = 0 THEN lo
      ELSE R(lo.n * hi.d * (100 * (f + 1) - k100) + hi.n * lo.d * (k100 - 100 * f),
             100 * lo.d * hi.d)

Ordered(rows) ==
  \A i \in 1..(Len(rows) - 1) :
    \/ RLess(rows[i + 1].max, rows[i].max)
    \/ rows[i].max = rows[i + 1].max /\ RLess(rows[i + 1].avg, rows[i].avg)
    \/ /\ rows[i].max = rows[i + 1].max
       /\ rows[i].avg = rows[i + 1].avg
       /\ StrLess(rows[i].asset, rows[i + 1].asset)

ResultAssets == {results[i].asset : i \in 1..Len(results)}
AggKeys(agg) == {agg[i].aid : i \in 1..Len(agg)}

ScoresOf(aid) ==
  LET rs == SelectSeq(results, LAMBDA r : r.asset = aid)
  IN  [i \in 1..Len(rs) |-> rs[i].score]

Consistent(agg) ==
  /\ AggKeys(agg) = ResultAssets
  /\ \A i \in 1..Len(agg) :
       LET sc == ScoresOf(agg[i].aid)
       IN  /\ agg[i].count = Len(sc)
           /\ agg[i].sum = SumSeq(sc)
           /\ RMul(agg[i].avg, RInt(agg[i].count)) = agg[i].sum
           /\ agg[i].max \in Range(sc)
           /\ \A j \in 1..Len(sc) : RLeq(sc[j], agg[i].max)

EvaluateStep == op' = "evaluate" /\ evals' = evals + 1

(***************************************************************************)
(* C1: after any number n >= 1 of evaluate() calls on an engine whose      *)
(* assets, events and policy are unchanged, the results list and the       *)
(* per-asset score lists equal their value after one call.                 *)
(***************************************************************************)
C1_EvaluateIdempotent ==
  (phase = "engine" /\ evals >= 1) =>
    /\ results = EvalEvents(events, assets, policy.rules, <<>>, <<>>).results
    /\ by_asset = EvalEvents(events, assets, policy.rules, <<>>, <<>>).by_asset

(***************************************************************************)
(* C2: the core has no error path on malformed input fields: Rule.match    *)
(* and Rule.score return for every event and asset, non-numeric severity   *)
(* and criticality included, and evaluate() never raises.                  *)
(***************************************************************************)
C2_NoErrorPath ==
  /\ call.fn \in {"match", "score"} => call.ok
  /\ err # "evaluate"

(***************************************************************************)
(* C3: each evaluate() call appends, for the events whose asset resolves   *)
(* and in event-store order, exactly one ScoreResult whose applied list is *)
(* the policy-order subsequence of the matching rules with a non-zero      *)
(* score, each score being max(0, weight * (base + severity*mul_severity + *)
(* criticality*mul_criticality + label bonus + tag bonus)), and whose      *)
(* total is their sum; ts is carried through.  With the default policy,    *)
(* event e1 on asset srv-1 scores 188 with 3 applied entries.              *)
(***************************************************************************)
C3_EvaluateAppendsScores ==
  [][ /\ EvaluateStep => results' = results \o RefResults(events, assets, policy.rules)
      /\ \A i \in 1..Len(results') :
           (policy'.id = "default-policy" /\ results'[i].event = "e1" /\ results'[i].asset = "srv-1")
             => results'[i].score = RInt(188) /\ Len(results'[i].applied) = 3 ]_vars

C3_Witness ==
  /\ op = "evaluate"
  /\ policy.id = "default-policy"
  /\ \E i \in 1..Len(results) :
       /\ results[i].event = "e1" /\ results[i].score = RInt(188) /\ Len(results[i].applied) = 3
  /\ \E i \in 1..Len(results) : Len(results[i].applied) \in 1..(Len(policy.rules) - 1)

(***************************************************************************)
(* C4: an event whose asset field matches no loaded asset id (or is        *)
(* missing) produces no ScoreResult and no aggregate entry, raises no      *)
(* error and does not stop the evaluation of the remaining events; every   *)
(* ScoreResult's asset id is the id of a loaded asset.                     *)
(***************************************************************************)
C4_UnknownAssetSkipped ==
  /\ \A i \in 1..Len(results) : results[i].asset \in DOMAIN assets
  /\ \A i \in 1..Len(by_asset) : by_asset[i].aid \in DOMAIN assets
  /\ \A i \in 1..Len(results) : \A j \in 1..Len(events) :
       events[j].id = results[i].event => events[j].asset \in DOMAIN assets
  /\ err # "evaluate"
  /\ op = "evaluate" =>
       /\ \A j \in 1..Len(events) :
            events[j].asset \in DOMAIN assets => \E i \in 1..Len(results) : results[i].event = events[j].id
       /\ Len(results) = evals * Cardinality({j \in 1..Len(events) : events[j].asset \in DOMAIN assets})

C4_Witness ==
  /\ op = "evaluate"
  /\ \E j \in 1..Len(events) : \E k \in 1..Len(events) :
       /\ j < k
       /\ events[j].asset \notin DOMAIN assets
       /\ events[k].asset \in DOMAIN assets
       /\ \E i \in 1..Len(results) : results[i].event = events[k].id
  /\ \E j \in 1..Len(events) : events[j].asset = NoneStr

(***************************************************************************)
(* C5: the key set of aggregate() equals the set of asset ids that appear  *)
(* in at least one ScoreResult; an asset without events has no entry.      *)
(***************************************************************************)
C5_AggregateKeys ==
  /\ AggKeys(AggOf(by_asset)) = ResultAssets
  /\ op = "aggregate" => AggKeys(out.agg) = ResultAssets
  /\ \A i, j \in 1..Len(AggOf(by_asset)) : AggOf(by_asset)[i].aid = AggOf(by_asset)[j].aid => i = j

C5_Witness ==
  /\ op = "aggregate"
  /\ evals >= 1
  /\ AggKeys(out.agg) # {}
  /\ DOMAIN assets \ AggKeys(out.agg) # {}
  /\ \E i \in 1..Len(results) : results[i].score = RZero

(***************************************************************************)
(* C6: Rule.score returns a value >= 0 for every rule, asset and event,    *)
(* whatever the signs of base, multipliers, bonuses and weight, and every  *)
(* ScoreResult's total is >= 0.                                            *)
(***************************************************************************)
C6_ScoreNonNegative ==
  /\ \A i \in 1..Len(policy.rules) : \A aid \in DOMAIN assets : \A j \in 1..Len(events) :
       /\ RuleScore(policy.rules[i], assets[aid], events[j]).ok
       /\ RuleScore(policy.rules[i], assets[aid], events[j]).v.n >= 0
  /\ \A i \in 1..Len(results) :
       /\ results[i].score.n >= 0
       /\ \A j \in 1..Len(results[i].applied) : results[i].applied[j].score.n > 0

C6_Witness ==
  /\ op = "evaluate"
  /\ \E i \in 1..Len(policy.rules) : \E j \in 1..Len(events) :
       /\ events[j].asset \in DOMAIN assets
       /\ RefMatch(policy.rules[i], assets[events[j].asset], events[j])
       /\ RefWeighted(policy.rules[i], assets[events[j].asset], events[j]).n < 0
       /\ policy.rules[i].weight.n > 0
  /\ \E i \in 1..Len(policy.rules) : \E j \in 1..Len(events) :
       /\ events[j].asset \in DOMAIN assets
       /\ RefMatch(policy.rules[i], assets[events[j].asset], events[j])
       /\ RefWeighted(policy.rules[i], assets[events[j].asset], events[j]).n < 0
       /\ policy.rules[i].weight.n < 0

(***************************************************************************)
(* C7: percentile(vals, p) is the linear-interpolation order statistic:    *)
(* with s the ascending sort of vals, n its length and k = (n-1)*p/100,    *)
(* s[k] when k is an integer and s[floor k]*(ceil k - k) +                 *)
(* s[ceil k]*(k - floor k) otherwise; 0 for the empty list, the element of *)
(* a one-element list, and 2.5 for percentile([1,2,3,4], 50).              *)
(***************************************************************************)
C7_PercentileInterpolates ==
  call.fn = "percentile" =>
    /\ call.num = RefPercentile(call.vals, call.p)
    /\ Len(call.vals) = 0 => call.num = RZero
    /\ Len(call.vals) = 1 => call.num = call.vals[1]
    /\ (call.vals = <<RInt(1), RInt(2), RInt(3), RInt(4)>> /\ call.p = 50) => call.num = R(5, 2)

C7_Witness ==
  /\ call.fn = "percentile"
  /\ call.vals = <<RInt(4), RInt(1), RInt(3), RInt(2)>>
  /\ call.p = 50
  /\ call.num = R(5, 2)

(***************************************************************************)
(* C8: Rule.match is the conjunction of exactly the conditions whose key   *)
(* is present in when; an absent key imposes no constraint, a failing      *)
(* present condition is never overridden by a later passing one, and an    *)
(* empty when matches every asset/event pair.                              *)
(***************************************************************************)
C8_MatchIsConjunction ==
  call.fn = "match" =>
    /\ call.match = RefMatch(call.rule, call.asset, call.event)
    /\ call.rule.when.keys = {} => call.match
    /\ call.ok

C8_Witness ==
  /\ call.fn = "match"
  /\ ~call.match
  /\ {"event_type", "asset_tags_any", "event_labels_any"} \subseteq call.rule.when.keys
  /\ ~RefCond("event_type", call.rule.when, call.asset, call.event)
  /\ RefCond("asset_tags_any", call.rule.when, call.asset, call.event)
  /\ RefCond("event_labels_any", call.rule.when, call.asset, call.event)
  /\ \A k \in call.rule.when.keys \ {"event_type"} : RefCond(k, call.rule.when, call.asset, call.event)

(***************************************************************************)
(* C9: the rows of every summary listing (the summary of export_report and *)
(* the rows of the 'top' command) are sorted by descending max, then       *)
(* descending avg, then ascending asset id.                                *)
(***************************************************************************)
C9_SummaryOrder ==
  /\ op = "report" => Ordered(out.summary)
  /\ op = "top" => Ordered(out.rows)

(***************************************************************************)
(* C10: under any interleaving of evaluate() and aggregate() the aggregate *)
(* is consistent with the results list: per asset, count is the number of  *)
(* its ScoreResults, sum the sum of their scores, avg = sum/count and max  *)
(* their largest score; aggregate() changes neither results nor the score  *)
(* lists, and two consecutive aggregate() calls return equal mappings.     *)
(***************************************************************************)
C10_AggregateConsistent ==
  /\ [](/\ Consistent(AggOf(by_asset))
        /\ op = "aggregate" => Consistent(out.agg))
  /\ [][ /\ op' = "aggregate" => results' = results /\ by_asset' = by_asset
         /\ (op = "aggregate" /\ op' = "aggregate") => out'.agg = out.agg ]_vars

C10_Witness ==
  /\ op = "aggregate"
  /\ evals = 2
  /\ \E i \in 1..Len(out.agg) :
       /\ out.agg[i].count >= 4
       /\ out.agg[i].avg # out.agg[i].max
       /\ out.agg[i].sum # RZero

====
